---- MODULE Spec2Model ----
(***************************************************************************)
(* Formatting capture and re-application of c12-parser (src/format.rs).    *)
(*                                                                         *)
(* A text is a sequence of Unicode scalar values (code points).  A Rust    *)
(* String is the UTF-8 encoding of such a sequence, so str::len() is the   *)
(* sum of len_utf8 over its characters, while chars().take(n) counts       *)
(* characters.  Option<T> is a sequence of length 0 (None) or 1 (Some).    *)
(***************************************************************************)
EXTENDS Integers, Sequences, FiniteSets, TLC

VARIABLES pc, text, opts, info, indent, fmt, value, sopts, out, lazy, th,
          extra

vars == <<pc, text, opts, info, indent, fmt, value, sopts, out, lazy, th,
          extra>>

\* the state of an adapter call: the format, the decoded value, the options
\* of the stringify call and its result, the extra options of parse_jsonc
adapterVars == <<fmt, value, sopts, out, extra>>

\* the lazily initialised statics and the threads that call detect_format
threadVars == <<lazy, th>>

(***************************************************************************)
(* Bounds                                                                  *)
(***************************************************************************)
MaxLen == 3          \* longest text handed to detect_format
MaxSampleLen == 5    \* longest sample of a directly constructed FormatInfo
MaxIndent == 3       \* largest explicit indent
MaxSample == 4       \* largest small sample_size (besides the default)

(***************************************************************************)
(* Characters                                                              *)
(***************************************************************************)
TAB == 9
LF == 10
CR == 13
SPACE == 32
LETTER == 97
NBSP == 160

\* the characters texts are built from: one-byte white space, the two line
\* terminator characters, a one-byte non-white-space character and a
\* two-byte white space character (U+00A0)
Alphabet == {TAB, LF, CR, SPACE, LETTER, NBSP}

\* char::is_whitespace and the regex class \s: the White_Space property
is_whitespace(c) ==
    \/ c \in 9..13
    \/ c = 32
    \/ c = 133
    \/ c = 160
    \/ c = 5760
    \/ c \in 8192..8202
    \/ c \in {8232, 8233, 8239, 8287, 12288}

\* char::len_utf8
len_utf8(c) ==
    IF c < 128 THEN 1 ELSE IF c < 2048 THEN 2 ELSE IF c < 65536 THEN 3 ELSE 4

\* str::len(): the length in bytes
RECURSIVE len(_)
len(s) == IF s = <<>> THEN 0 ELSE len_utf8(Head(s)) + len(Tail(s))

\* all texts of at most n characters
Texts(n) == UNION {[1..k -> Alphabet] : k \in 0..n}

(***************************************************************************)
(* Option                                                                  *)
(***************************************************************************)
None == <<>>
Some(v) == <<v>>
is_none(o) == o = <<>>
is_some(o) == o # <<>>
unwrap(o) == o[1]

(***************************************************************************)
(* FormatOptions                                                           *)
(***************************************************************************)
DefaultSampleSize == 1024

FormatOptionsDefault ==
    [indent |-> None,
     preserve_indentation |-> TRUE,
     preserve_whitespace |-> TRUE,
     sample_size |-> DefaultSampleSize]

Indents == {None} \cup {Some(k) : k \in 0..MaxIndent}

SampleSizes == (0..MaxSample) \cup {DefaultSampleSize}

\* the options a caller can hand to a parse function
FormatOptions ==
    [indent : Indents,
     preserve_indentation : BOOLEAN,
     preserve_whitespace : BOOLEAN,
     sample_size : SampleSizes]

\* the options handed to a stringify function
StringifyOptions ==
    {o \in FormatOptions : /\ o.preserve_whitespace
                           /\ o.sample_size = DefaultSampleSize}

\* JsoncExtraOptions and its Default
JsoncExtraOptions ==
    [disallow_comments : BOOLEAN, allow_trailing_comma : BOOLEAN]

JsoncExtraOptionsDefault ==
    [disallow_comments |-> FALSE, allow_trailing_comma |-> FALSE]

\* no adapter call is under way
NoAdapter ==
    /\ fmt = "none"
    /\ value = None
    /\ sopts = FormatOptionsDefault
    /\ out = None
    /\ extra = JsoncExtraOptionsDefault

\* no thread is running
NoThreads ==
    /\ lazy = <<>>
    /\ th = <<>>

(***************************************************************************)
(* detect_format                                                           *)
(***************************************************************************)
\* a take() that counts UTF-8 bytes where the code counts characters
RECURSIVE chars_take_bytes(_, _)
chars_take_bytes(s, n) ==
    IF s = <<>> \/ len_utf8(Head(s)) > n THEN <<>>
    ELSE <<Head(s)>> \o chars_take_bytes(Tail(s), n - len_utf8(Head(s)))

\* text.chars().take(n).collect::<String>(): the iterator yields characters
\* until n of them were taken or the text is exhausted
RECURSIVE chars_take(_, _)
chars_take(s, n) ==
    IF n = 0 \/ s = <<>> THEN <<>>
    ELSE <<Head(s)>> \o chars_take(Tail(s), n - 1)

\* the greedy \s+ started at position i: the number of characters it consumes
RECURSIVE ws_run(_, _)
ws_run(s, i) ==
    IF i > Len(s) \/ ~is_whitespace(s[i]) THEN 0 ELSE 1 + ws_run(s, i + 1)

\* a lazy \s+? where the code has the greedy \s+
START_RE_captures_lazy(s) ==
    IF ws_run(s, 1) >= 1 THEN Some(SubSeq(s, 1, 1)) ELSE None

\* START_RE = ^(\s+): the match, if any, starts at the first character
START_RE_captures(s) ==
    LET n == ws_run(s, 1)
    IN  IF n >= 1 THEN Some(SubSeq(s, 1, n)) ELSE None

\* a search that keeps the rightmost match where the regex engine reports
\* the leftmost one
RECURSIVE END_RE_search_rightmost(_, _)
END_RE_search_rightmost(s, i) ==
    IF i > Len(s) THEN None
    ELSE LET later == END_RE_search_rightmost(s, i + 1)
         IN  IF is_some(later) THEN later
             ELSE IF is_whitespace(s[i]) /\ i = Len(s)
                  THEN Some(SubSeq(s, i, Len(s)))
                  ELSE None

\* END_RE = (\s+)$ tried at start position i and then further right: the
\* leftmost position from which a run of white space reaches the end
RECURSIVE END_RE_search(_, _)
END_RE_search(s, i) ==
    IF i > Len(s) THEN None
    ELSE LET n == ws_run(s, i)
         IN  IF n >= 1 /\ i + n - 1 = Len(s)
             THEN Some(SubSeq(s, i, Len(s)))
             ELSE END_RE_search(s, i + 1)

\* an END_RE without the $ anchor: the leftmost run of white space
RECURSIVE END_RE_search_unanchored(_, _)
END_RE_search_unanchored(s, i) ==
    IF i > Len(s) THEN None
    ELSE LET n == ws_run(s, i)
         IN  IF n >= 1 THEN Some(SubSeq(s, i, i + n - 1))
             ELSE END_RE_search_unanchored(s, i + 1)

END_RE_captures_unanchored(s) == END_RE_search_unanchored(s, 1)

\* an END_RE that finds nothing in a text that START_RE matched entirely
END_RE_captures_disjoint(s) ==
    IF s # <<>> /\ ws_run(s, 1) = Len(s) THEN None ELSE END_RE_search(s, 1)

END_RE_captures(s) == END_RE_search(s, 1)

\* Option<String>::unwrap_or_default
unwrap_or_default(o) == IF is_some(o) THEN unwrap(o) ELSE <<>>

\* a detect_format that captures the white space whatever the flag says
detect_format_always(t, o) ==
    [sample |->
        IF is_none(o.indent) /\ o.preserve_indentation
        THEN Some(chars_take(t, o.sample_size))
        ELSE None,
     whitespace_start |-> unwrap_or_default(START_RE_captures(t)),
     whitespace_end |-> unwrap_or_default(END_RE_captures(t))]

detect_format(t, o) ==
    [sample |->
        IF is_none(o.indent) /\ o.preserve_indentation
        THEN Some(chars_take(t, o.sample_size))
        ELSE None,
     whitespace_start |->
        IF o.preserve_whitespace
        THEN unwrap_or_default(START_RE_captures(t))
        ELSE <<>>,
     whitespace_end |->
        IF o.preserve_whitespace
        THEN unwrap_or_default(END_RE_captures(t))
        ELSE <<>>]

(***************************************************************************)
(* compute_indent                                                          *)
(***************************************************************************)
\* index of the first LF of s at or after i, Len(s) + 1 when there is none
RECURSIVE find_lf(_, _)
find_lf(s, i) ==
    IF i > Len(s) \/ s[i] = LF THEN i ELSE find_lf(s, i + 1)

\* str::lines(): split after every LF; the LF, and a CR right before it,
\* are not part of the line; no line follows a final LF
RECURSIVE lines(_)
lines(s) ==
    IF s = <<>> THEN <<>>
    ELSE LET j == find_lf(s, 1)
         IN  IF j > Len(s) THEN <<s>>
             ELSE LET l == SubSeq(s, 1, j - 1)
                      line == IF l # <<>> /\ l[Len(l)] = CR
                              THEN SubSeq(l, 1, Len(l) - 1)
                              ELSE l
                  IN  <<line>> \o lines(SubSeq(s, j + 1, Len(s)))

\* str::trim_start()
RECURSIVE trim_start(_)
trim_start(s) ==
    IF s # <<>> /\ is_whitespace(Head(s)) THEN trim_start(Tail(s)) ELSE s

DefaultIndent == 2

\* a loop without the `continue` for blank lines
RECURSIVE scan_lines_no_skip(_, _)
scan_lines_no_skip(ls, k) ==
    IF k > Len(ls) THEN None
    ELSE LET line == ls[k]
             indent_len == len(line) - len(trim_start(line))
         IN  IF indent_len > 0 THEN Some(indent_len)
             ELSE scan_lines_no_skip(ls, k + 1)

\* the for loop over sample.lines(), from line k on
RECURSIVE scan_lines(_, _)
scan_lines(ls, k) ==
    IF k > Len(ls) THEN None
    ELSE LET line == ls[k]
             trimmed == trim_start(line)
             indent_len == len(line) - len(trimmed)
         IN  IF trimmed = <<>> THEN scan_lines(ls, k + 1)
             ELSE IF indent_len > 0 THEN Some(indent_len)
             ELSE scan_lines(ls, k + 1)

\* a compute_indent that takes an explicit indent of 0 for an unset one
compute_indent_truthy(i, o) ==
    IF is_some(o.indent) /\ unwrap(o.indent) > 0 THEN unwrap(o.indent)
    ELSE LET found == IF is_some(i.sample)
                      THEN scan_lines(lines(unwrap(i.sample)), 1)
                      ELSE None
         IN  IF is_some(found) THEN unwrap(found) ELSE DefaultIndent

compute_indent(i, o) ==
    IF is_some(o.indent) THEN unwrap(o.indent)
    ELSE LET found == IF is_some(i.sample)
                      THEN scan_lines(lines(unwrap(i.sample)), 1)
                      ELSE None
         IN  IF is_some(found) THEN unwrap(found) ELSE DefaultIndent

(***************************************************************************)
(* State machine: a text is parsed (Formatted::new calls detect_format)    *)
(* and the descriptor is later resolved by a stringify call with its own   *)
(* options.                                                                *)
(***************************************************************************)
NoInfo == [sample |-> None, whitespace_start |-> <<>>, whitespace_end |-> <<>>]

NoIndent == None

Init ==
    /\ pc = "start"
    /\ text \in Texts(MaxLen)
    /\ opts \in FormatOptions
    /\ info = NoInfo
    /\ indent = NoIndent
    /\ NoAdapter
    /\ NoThreads

\* a Formatted::new that panics on the empty text
FormattedNew_nonempty ==
    /\ pc = "start"
    /\ text # <<>>
    /\ info' = detect_format(text, opts)
    /\ pc' = "detected"
    /\ UNCHANGED <<text, opts, indent>>
    /\ UNCHANGED <<adapterVars, threadVars>>

\* Formatted::new(text, value, &opts)
FormattedNew ==
    /\ pc = "start"
    /\ info' = detect_format(text, opts)
    /\ pc' = "detected"
    /\ UNCHANGED <<text, opts, indent>>
    /\ UNCHANGED <<adapterVars, threadVars>>

\* compute_indent(&formatted.format, &opts) at the head of a stringify call
ComputeIndent ==
    /\ pc = "detected"
    /\ \E o \in StringifyOptions :
          /\ opts' = o
          /\ indent' = Some(compute_indent(info, o))
    /\ pc' = "resolved"
    /\ UNCHANGED <<text, info>>
    /\ UNCHANGED <<adapterVars, threadVars>>

Next == FormattedNew \/ ComputeIndent

Spec == Init /\ [][Next]_vars

(***************************************************************************)
(* compute_indent on descriptors built directly, as the unit tests do      *)
(***************************************************************************)
InitIndent ==
    /\ pc = "detected"
    /\ text = <<>>
    /\ opts \in StringifyOptions
    /\ info \in [sample : {None} \cup {Some(s) : s \in Texts(MaxSampleLen)},
                 whitespace_start : {<<>>},
                 whitespace_end : {<<>>}]
    /\ indent = NoIndent
    /\ NoAdapter
    /\ NoThreads

\* compute_indent(&info, &opts)
ComputeIndentCall ==
    /\ pc = "detected"
    /\ indent' = Some(compute_indent(info, opts))
    /\ pc' = "resolved"
    /\ UNCHANGED <<text, opts, info>>
    /\ UNCHANGED <<adapterVars, threadVars>>

NextIndent == ComputeIndentCall

SpecIndent == InitIndent /\ [][NextIndent]_vars

(***************************************************************************)
(* Decoded values: null, a number, or a map from one-letter keys to        *)
(* values (serde_json::Value keeps the keys of a Map sorted).              *)
(***************************************************************************)
QUOTE == 34
STAR == 42
COMMA == 44
SLASH == 47
DIGIT == 49
COLON == 58
EQUALS == 61
LBRACKET == 91
RBRACKET == 93
KEY_A == 97
KEY_B == 98
LBRACE == 123
RBRACE == 125

NULL_LITERAL == <<110, 117, 108, 108>>

VNull == [t |-> "null", keys |-> <<>>, kids |-> <<>>]
VNum == [t |-> "num", keys |-> <<>>, kids |-> <<>>]
VMap(ks, vs) == [t |-> "map", keys |-> ks, kids |-> vs]

\* Map::insert: the keys stay sorted and a key that is present is replaced
RECURSIVE map_insert_at(_, _, _, _)
map_insert_at(m, k, v, i) ==
    IF i > Len(m.keys)
    THEN VMap(Append(m.keys, k), Append(m.kids, v))
    ELSE IF m.keys[i] = k
    THEN VMap(m.keys, [m.kids EXCEPT ![i] = v])
    ELSE IF m.keys[i] > k
    THEN VMap(SubSeq(m.keys, 1, i - 1) \o <<k>>
                  \o SubSeq(m.keys, i, Len(m.keys)),
              SubSeq(m.kids, 1, i - 1) \o <<v>>
                  \o SubSeq(m.kids, i, Len(m.kids)))
    ELSE map_insert_at(m, k, v, i + 1)

map_insert(m, k, v) == map_insert_at(m, k, v, 1)

map_has(m, k) == \E i \in 1..Len(m.keys) : m.keys[i] = k

\* the values a caller decodes or puts into a Formatted
Values ==
    {VNull,
     VNum,
     VMap(<<KEY_A>>, <<VNum>>),
     VMap(<<KEY_A, KEY_B>>, <<VNum, VNum>>),
     VMap(<<KEY_A>>, <<VMap(<<KEY_B>>, <<VNum>>)>>)}

\* Result<T, E>
Ok(v) == [ok |-> TRUE, v |-> v]
Err(e) == [ok |-> FALSE, v |-> e]

\* n space characters
RECURSIVE spaces(_)
spaces(n) == IF n <= 0 THEN <<>> ELSE <<SPACE>> \o spaces(n - 1)

(***************************************************************************)
(* serde_json                                                              *)
(***************************************************************************)
\* the pretty printer from member i of a map on: w spaces per level, the
\* members one per line, the closing brace at the depth of the map
RECURSIVE json_pretty(_, _, _), json_pretty_members(_, _, _, _)
json_pretty_members(v, i, d, w) ==
    IF i > Len(v.keys) THEN <<LF>> \o spaces(d * w) \o <<RBRACE>>
    ELSE (IF i = 1 THEN <<LF>> ELSE <<COMMA, LF>>)
         \o spaces((d + 1) * w)
         \o <<QUOTE, v.keys[i], QUOTE, COLON, SPACE>>
         \o json_pretty(v.kids[i], d + 1, w)
         \o json_pretty_members(v, i + 1, d, w)

json_pretty(v, d, w) ==
    IF v.t = "null" THEN NULL_LITERAL
    ELSE IF v.t = "num" THEN <<DIGIT>>
    ELSE IF v.keys = <<>> THEN <<LBRACE, RBRACE>>
    ELSE <<LBRACE>> \o json_pretty_members(v, 1, d, w)

\* serde_json::to_string_pretty: two spaces per level; every value of the
\* model is serialisable
to_string_pretty(v) == Ok(json_pretty(v, 0, 2))

\* the white space of RFC 8259
json_whitespace(c) == c \in {SPACE, TAB, LF, CR}

\* the white space of JSON5: that of ECMAScript
json5_whitespace(c) ==
    \/ c \in {TAB, 11, 12, SPACE, NBSP, 65279, LF, CR, 8232, 8233}
    \/ c = 5760
    \/ c \in 8192..8202
    \/ c \in {8239, 8287, 12288}

\* position of the * of the first */ at or after i, Len(s) + 1 if none
RECURSIVE find_comment_end(_, _)
find_comment_end(s, i) ==
    IF i + 1 > Len(s) THEN Len(s) + 1
    ELSE IF s[i] = STAR /\ s[i + 1] = SLASH THEN i
    ELSE find_comment_end(s, i + 1)

\* position of the first character at or after i that is neither white
\* space nor, in a grammar with comments, part of a // or /* */ comment;
\* a comment that is not closed is not skipped
RECURSIVE skip_ws(_, _, _)
skip_ws(s, i, g) ==
    IF i <= Len(s) /\ (IF g.ws5 THEN json5_whitespace(s[i])
                                ELSE json_whitespace(s[i]))
    THEN skip_ws(s, i + 1, g)
    ELSE IF g.comments /\ i + 1 <= Len(s) /\ s[i] = SLASH /\ s[i + 1] = SLASH
    THEN skip_ws(s, find_lf(s, i), g)
    ELSE IF g.comments /\ i + 1 <= Len(s) /\ s[i] = SLASH /\ s[i + 1] = STAR
    THEN LET e == find_comment_end(s, i + 2)
         IN  IF e > Len(s) THEN i ELSE skip_ws(s, e + 2, g)
    ELSE i

\* the grammars of the decoders: the white space they skip, whether a
\* comma may precede the closing brace, whether comments are skipped
JsonGrammar == [ws5 |-> FALSE, trailing |-> FALSE, comments |-> FALSE]
Json5Grammar == [ws5 |-> TRUE, trailing |-> TRUE, comments |-> TRUE]

ParseFail == [ok |-> FALSE, v |-> VNull, i |-> 0]

\* the recursive descent of the decoder: a value that starts at position i,
\* and the members of a map after its opening brace or after a comma, in
\* the grammar g
RECURSIVE json_value(_, _, _), json_members(_, _, _, _, _)
json_members(s, i0, m, first, g) ==
    LET i == skip_ws(s, i0, g)
    IN  IF i > Len(s) THEN ParseFail
        ELSE IF s[i] = RBRACE /\ (first \/ g.trailing)
        THEN [ok |-> TRUE, v |-> m, i |-> i + 1]
        ELSE IF i + 2 > Len(s) \/ s[i] # QUOTE \/ s[i + 1] = QUOTE
                \/ s[i + 2] # QUOTE
        THEN ParseFail
        ELSE LET c == skip_ws(s, i + 3, g)
             IN  IF c > Len(s) \/ s[c] # COLON THEN ParseFail
                 ELSE LET r == json_value(s, skip_ws(s, c + 1, g), g)
                          n == skip_ws(s, r.i, g)
                      IN  IF ~r.ok \/ n > Len(s) THEN ParseFail
                          ELSE IF s[n] = RBRACE
                          THEN [ok |-> TRUE,
                                v |-> map_insert(m, s[i + 1], r.v),
                                i |-> n + 1]
                          ELSE IF s[n] = COMMA
                          THEN json_members(s, n + 1,
                                            map_insert(m, s[i + 1], r.v),
                                            FALSE, g)
                          ELSE ParseFail

json_value(s, i, g) ==
    IF i > Len(s) THEN ParseFail
    ELSE IF s[i] = DIGIT THEN [ok |-> TRUE, v |-> VNum, i |-> i + 1]
    ELSE IF i + 3 <= Len(s) /\ SubSeq(s, i, i + 3) = NULL_LITERAL
    THEN [ok |-> TRUE, v |-> VNull, i |-> i + 4]
    ELSE IF s[i] = LBRACE
    THEN json_members(s, i + 1, VMap(<<>>, <<>>), TRUE, g)
    ELSE ParseFail

\* one value with white space around it, and nothing else
json_document(s, g) ==
    LET r == json_value(s, skip_ws(s, 1, g), g)
    IN  IF r.ok /\ skip_ws(s, r.i, g) > Len(s) THEN Ok(r.v)
        ELSE Err("syntax")

\* serde_json::from_str
serde_json_from_str(s) == json_document(s, JsonGrammar)

(***************************************************************************)
(* json.rs                                                                 *)
(***************************************************************************)
\* [T]::join("\n")
RECURSIVE join(_)
join(ls) ==
    IF ls = <<>> THEN <<>>
    ELSE IF Len(ls) = 1 THEN ls[1]
    ELSE ls[1] \o <<LF>> \o join(Tail(ls))

\* a closure that multiplies the prefix by the depth the encoder gave the line
reindent_line_by_depth(line, n) ==
    IF line = <<>> THEN line
    ELSE spaces(n * ((len(line) - len(trim_start(line))) \div 2))
         \o trim_start(line)

\* the closure of the map(): an empty line is kept, any other line loses
\* its leading white space and gets n spaces
reindent_line(line, n) ==
    IF line = <<>> THEN line
    ELSE spaces(n) \o trim_start(line)

\* json.lines().map(..).collect::<Vec<_>>().join("\n")
reindent(json, n) ==
    LET ls == lines(json)
    IN  join([k \in 1..Len(ls) |-> reindent_line(ls[k], n)])

\* a stringify_json that emits the stored white space only when the
\* options of the call ask for it
stringify_json_honours_whitespace(f, o) ==
    LET n == compute_indent(f.format, o)
        json == to_string_pretty(f.value)
    IN  IF ~json.ok THEN json
        ELSE IF o.preserve_whitespace
        THEN Ok(f.format.whitespace_start \o reindent(json.v, n)
                \o f.format.whitespace_end)
        ELSE Ok(reindent(json.v, n))

stringify_json(f, o) ==
    LET n == compute_indent(f.format, o)
        json == to_string_pretty(f.value)
    IN  IF ~json.ok THEN json
        ELSE Ok(f.format.whitespace_start \o reindent(json.v, n)
                \o f.format.whitespace_end)

\* a wrapper that keeps the explicit indent of the parse as its sample
Formatted_remembers(t, v, o) ==
    [value |-> v,
     format |-> IF is_some(o.indent)
                THEN [detect_format(t, o) EXCEPT
                          !.sample = Some(spaces(unwrap(o.indent))
                                              \o <<LETTER>>)]
                ELSE detect_format(t, o)]

\* Formatted::new as a value: the decoded value with the descriptor
Formatted(t, v, o) == [value |-> v, format |-> detect_format(t, o)]

parse_json(t, o) ==
    LET r == serde_json_from_str(t)
    IN  IF ~r.ok THEN r ELSE Ok(Formatted(t, r.v, o))

(***************************************************************************)
(* jsonc.rs                                                                *)
(***************************************************************************)
\* jsonc_parser::parse_to_serde_value: no value at all is Ok(None); a
\* comment in a text whose comments are not allowed is a syntax error
parse_to_serde_value(s, parse_opts) ==
    LET g == [ws5 |-> FALSE,
              trailing |-> parse_opts.allow_trailing_commas,
              comments |-> parse_opts.allow_comments]
    IN  IF skip_ws(s, 1, g) > Len(s) THEN Ok(None)
        ELSE LET r == json_document(s, g)
             IN  IF r.ok THEN Ok(Some(r.v)) ELSE r

\* the parse options of lines 23-27
JsoncParseOptions(e) ==
    [allow_comments |-> ~e.disallow_comments,
     allow_trailing_commas |-> e.allow_trailing_comma]

\* a parse_jsonc that hands jsonc_parser its own defaults, whatever the
\* caller asks for
parse_jsonc_flags_ignored(t, o, e) ==
    LET r == parse_to_serde_value(t, JsoncParseOptions(JsoncExtraOptionsDefault))
    IN  IF ~r.ok THEN r
        ELSE Ok(Formatted(t, IF is_some(r.v) THEN unwrap(r.v) ELSE VNull, o))

parse_jsonc(t, o, e) ==
    LET r == parse_to_serde_value(t, JsoncParseOptions(e))
    IN  IF ~r.ok THEN r
        ELSE Ok(Formatted(t, IF is_some(r.v) THEN unwrap(r.v) ELSE VNull, o))

\* a stringify_jsonc that hands a fresh descriptor to the JSON adapter
stringify_jsonc_fresh(f, o) ==
    stringify_json([value |-> f.value, format |-> detect_format(<<>>, o)], o)

stringify_jsonc(f, o) ==
    stringify_json([value |-> f.value, format |-> f.format], o)

(***************************************************************************)
(* json5.rs                                                                *)
(***************************************************************************)
RECURSIVE json_compact(_), json_compact_members(_, _)
json_compact_members(v, i) ==
    IF i > Len(v.keys) THEN <<RBRACE>>
    ELSE (IF i = 1 THEN <<>> ELSE <<COMMA>>)
         \o <<QUOTE, v.keys[i], QUOTE, COLON>>
         \o json_compact(v.kids[i])
         \o json_compact_members(v, i + 1)

json_compact(v) ==
    IF v.t = "null" THEN NULL_LITERAL
    ELSE IF v.t = "num" THEN <<DIGIT>>
    ELSE <<LBRACE>> \o json_compact_members(v, 1)

\* json5::to_string: the text on one line
json5_to_string(v) == Ok(json_compact(v))

\* json5::from_str
json5_from_str(s) == json_document(s, Json5Grammar)

parse_json5(t, o) ==
    LET r == json5_from_str(t)
    IN  IF ~r.ok THEN r ELSE Ok(Formatted(t, r.v, o))

\* a stringify_json5 that applies the JSON line rewriting to the output
stringify_json5_reindented(f, o) ==
    LET n == compute_indent(f.format, o)
        json5 == json5_to_string(f.value)
    IN  IF ~json5.ok THEN json5
        ELSE Ok(f.format.whitespace_start \o reindent(json5.v, n)
                \o f.format.whitespace_end)

stringify_json5(f, o) ==
    LET n == compute_indent(f.format, o)
        json5 == json5_to_string(f.value)
    IN  IF ~json5.ok THEN json5
        ELSE Ok(f.format.whitespace_start \o json5.v
                \o f.format.whitespace_end)

(***************************************************************************)
(* toml_format.rs                                                          *)
(***************************************************************************)
\* the key = value lines of a table, each after b spaces, from member i on;
\* sub-tables are left to toml_tables
RECURSIVE toml_pairs(_, _, _)
toml_pairs(v, i, b) ==
    IF i > Len(v.keys) THEN <<>>
    ELSE (IF v.kids[i].t = "num"
          THEN spaces(b) \o <<v.keys[i], SPACE, EQUALS, SPACE, DIGIT, LF>>
          ELSE <<>>)
         \o toml_pairs(v, i + 1, b)

\* the [table] sections of the sub-tables, from member i on
RECURSIVE toml_tables(_, _, _)
toml_tables(v, i, b) ==
    IF i > Len(v.keys) THEN <<>>
    ELSE (IF v.kids[i].t = "map"
          THEN spaces(b) \o <<LBRACKET, v.keys[i], RBRACKET, LF>>
               \o toml_pairs(v.kids[i], 1, b)
          ELSE <<>>)
         \o toml_tables(v, i + 1, b)

\* a value the encoder has no text for: null anywhere, and, in the model, a
\* table below a sub-table
RECURSIVE toml_unsupported(_, _)
toml_unsupported(v, d) ==
    \/ v.t = "null"
    \/ v.t = "map" /\ d >= 2
    \/ \E i \in 1..Len(v.kids) : toml_unsupported(v.kids[i], d + 1)

toml_text(v, b) == toml_pairs(v, 1, b) \o toml_tables(v, 1, b)

\* toml::to_string: the document is a table
toml_to_string(v) ==
    IF v.t # "map" \/ toml_unsupported(v, 0) THEN Err("unsupported type")
    ELSE Ok(toml_text(v, 0))

toml_whitespace(c) == c \in {SPACE, TAB}

RECURSIVE toml_trim_start(_)
toml_trim_start(s) ==
    IF s # <<>> /\ toml_whitespace(Head(s)) THEN toml_trim_start(Tail(s))
    ELSE s

RECURSIVE toml_trim_end(_)
toml_trim_end(s) ==
    IF s # <<>> /\ toml_whitespace(s[Len(s)])
    THEN toml_trim_end(SubSeq(s, 1, Len(s) - 1))
    ELSE s

toml_bare_key(c) == c \in 97..122

\* the decoder line by line: acc is the document so far, cur the key of the
\* open [table] (None at the top)
RECURSIVE toml_lines(_, _, _, _)
toml_lines(ls, k, acc, cur) ==
    IF k > Len(ls) THEN Ok(acc)
    ELSE LET l == toml_trim_end(toml_trim_start(ls[k]))
         IN  IF l = <<>> THEN toml_lines(ls, k + 1, acc, cur)
             ELSE IF Len(l) = 3 /\ l[1] = LBRACKET /\ toml_bare_key(l[2])
                     /\ l[3] = RBRACKET
             THEN IF map_has(acc, l[2]) THEN Err("duplicate key")
                  ELSE toml_lines(ls, k + 1,
                                  map_insert(acc, l[2], VMap(<<>>, <<>>)),
                                  Some(l[2]))
             ELSE LET r == toml_trim_start(Tail(l))
                      e == IF r = <<>> THEN r ELSE toml_trim_start(Tail(r))
                  IN  IF ~toml_bare_key(l[1]) \/ r = <<>> \/ r[1] # EQUALS
                         \/ e # <<DIGIT>>
                      THEN Err("syntax")
                      ELSE IF is_none(cur)
                      THEN IF map_has(acc, l[1]) THEN Err("duplicate key")
                           ELSE toml_lines(ls, k + 1,
                                           map_insert(acc, l[1], VNum), cur)
                      ELSE LET i == CHOOSE j \in 1..Len(acc.keys) :
                                        acc.keys[j] = unwrap(cur)
                               t == acc.kids[i]
                           IN  IF map_has(t, l[1]) THEN Err("duplicate key")
                               ELSE toml_lines(
                                        ls, k + 1,
                                        map_insert(acc, unwrap(cur),
                                                   map_insert(t, l[1], VNum)),
                                        cur)

\* toml::from_str
toml_from_str(s) == toml_lines(lines(s), 1, VMap(<<>>, <<>>), None)

\* a parse_toml that detects with the options as the caller gave them
parse_toml_as_given(t, o) ==
    LET r == toml_from_str(t)
    IN  IF ~r.ok THEN r ELSE Ok(Formatted(t, r.v, o))

parse_toml(t, o) ==
    LET r == toml_from_str(t)
    IN  IF ~r.ok THEN r
        ELSE Ok(Formatted(t, r.v, [o EXCEPT !.preserve_indentation = FALSE]))

\* an encoder error answered with the white space alone
stringify_toml_partial(f, o) ==
    LET toml == toml_to_string(f.value)
    IN  Ok(f.format.whitespace_start
               \o (IF toml.ok THEN toml.v ELSE <<>>)
               \o f.format.whitespace_end)

stringify_toml(f, o) ==
    LET toml_str == toml_to_string(f.value)
    IN  IF ~toml_str.ok THEN toml_str
        ELSE Ok(f.format.whitespace_start \o toml_str.v
                \o f.format.whitespace_end)

(***************************************************************************)
(* yaml_format.rs                                                          *)
(***************************************************************************)
EMPTY_MAP_LITERAL == <<LBRACE, RBRACE>>

\* the block of a mapping from entry i on, every line after b spaces, a
\* nested mapping two spaces further in
RECURSIVE yaml_block(_, _, _)
yaml_block(v, i, b) ==
    IF i > Len(v.keys) THEN <<>>
    ELSE LET kid == v.kids[i]
         IN  spaces(b) \o <<v.keys[i], COLON>>
             \o (IF kid.t = "null" THEN <<SPACE>> \o NULL_LITERAL \o <<LF>>
                 ELSE IF kid.t = "num" THEN <<SPACE, DIGIT, LF>>
                 ELSE IF kid.keys = <<>>
                 THEN <<SPACE>> \o EMPTY_MAP_LITERAL \o <<LF>>
                 ELSE <<LF>> \o yaml_block(kid, 1, b + 2))
             \o yaml_block(v, i + 1, b)

yaml_text(v, b) ==
    IF v.t = "null" THEN spaces(b) \o NULL_LITERAL \o <<LF>>
    ELSE IF v.t = "num" THEN spaces(b) \o <<DIGIT, LF>>
    ELSE IF v.keys = <<>> THEN spaces(b) \o EMPTY_MAP_LITERAL \o <<LF>>
    ELSE yaml_block(v, 1, b)

\* serde_yaml::to_string: block style from column 0; every value of the
\* model is serialisable
serde_yaml_to_string(v) == Ok(yaml_text(v, 0))

\* the number of spaces a line starts with
RECURSIVE yaml_indent(_)
yaml_indent(l) ==
    IF l # <<>> /\ Head(l) = SPACE THEN 1 + yaml_indent(Tail(l)) ELSE 0

yaml_scalar(r) ==
    IF r = NULL_LITERAL THEN Some(VNull)
    ELSE IF r = <<DIGIT>> THEN Some(VNum)
    ELSE IF r = EMPTY_MAP_LITERAL THEN Some(VMap(<<>>, <<>>))
    ELSE None

\* a line of content: its column, and either a scalar or a key with an
\* optional scalar behind ": "
yaml_item(l) ==
    LET n == yaml_indent(l)
        r == SubSeq(l, n + 1, Len(l))
    IN  IF is_some(yaml_scalar(r))
        THEN [ok |-> TRUE, ind |-> n, entry |-> FALSE, key |-> 0,
              val |-> yaml_scalar(r)]
        ELSE IF Len(r) >= 2 /\ r[1] \in 97..122 /\ r[2] = COLON
        THEN IF Len(r) = 2
             THEN [ok |-> TRUE, ind |-> n, entry |-> TRUE, key |-> r[1],
                   val |-> None]
             ELSE IF r[3] = SPACE /\ is_some(yaml_scalar(SubSeq(r, 4, Len(r))))
             THEN [ok |-> TRUE, ind |-> n, entry |-> TRUE, key |-> r[1],
                   val |-> yaml_scalar(SubSeq(r, 4, Len(r)))]
             ELSE [ok |-> FALSE, ind |-> n, entry |-> FALSE, key |-> 0,
                   val |-> None]
        ELSE [ok |-> FALSE, ind |-> n, entry |-> FALSE, key |-> 0,
              val |-> None]

\* the lines that hold content, as items
RECURSIVE yaml_items(_, _)
yaml_items(ls, k) ==
    IF k > Len(ls) THEN <<>>
    ELSE IF yaml_indent(ls[k]) = Len(ls[k]) THEN yaml_items(ls, k + 1)
    ELSE <<yaml_item(ls[k])>> \o yaml_items(ls, k + 1)

YamlFail == [ok |-> FALSE, v |-> VNull, k |-> 0]

\* the block mapping whose entries stand in column c, from item k on: it
\* ends at the first item in a lower column; an item in a higher column
\* belongs to the entry before it only if that entry has no value yet
RECURSIVE yaml_mapping(_, _, _, _)
yaml_mapping(it, k, c, acc) ==
    IF k > Len(it) \/ it[k].ind < c THEN [ok |-> TRUE, v |-> acc, k |-> k]
    ELSE IF it[k].ind > c \/ ~it[k].entry \/ map_has(acc, it[k].key)
    THEN YamlFail
    ELSE IF is_some(it[k].val)
    THEN yaml_mapping(it, k + 1, c, map_insert(acc, it[k].key,
                                               unwrap(it[k].val)))
    ELSE IF k + 1 <= Len(it) /\ it[k + 1].ind > c
    THEN IF it[k + 1].entry
         THEN LET r == yaml_mapping(it, k + 1, it[k + 1].ind,
                                    VMap(<<>>, <<>>))
              IN  IF ~r.ok THEN YamlFail
                  ELSE yaml_mapping(it, r.k, c,
                                    map_insert(acc, it[k].key, r.v))
         ELSE yaml_mapping(it, k + 2, c,
                           map_insert(acc, it[k].key, unwrap(it[k + 1].val)))
    ELSE yaml_mapping(it, k + 1, c, map_insert(acc, it[k].key, VNull))

\* serde_yaml::from_str for documents in block style: one scalar, or one
\* block mapping that takes up every line of content
serde_yaml_from_str(s) ==
    LET it == yaml_items(lines(s), 1)
    IN  IF it = <<>> THEN Ok(VNull)
        ELSE IF \E k \in 1..Len(it) : ~it[k].ok THEN Err("syntax")
        ELSE IF ~it[1].entry
        THEN IF Len(it) = 1 THEN Ok(unwrap(it[1].val)) ELSE Err("syntax")
        ELSE LET r == yaml_mapping(it, 1, it[1].ind, VMap(<<>>, <<>>))
             IN  IF r.ok /\ r.k > Len(it) THEN Ok(r.v) ELSE Err("syntax")

parse_yaml(t, o) ==
    LET r == serde_yaml_from_str(t)
    IN  IF ~r.ok THEN r
        ELSE Ok(Formatted(t, r.v, [o EXCEPT !.preserve_indentation = FALSE]))

\* a stringify_yaml that leaves the captured white space out
stringify_yaml_bare(f, o) == serde_yaml_to_string(f.value)

stringify_yaml(f, o) ==
    LET yaml_str == serde_yaml_to_string(f.value)
    IN  IF ~yaml_str.ok THEN yaml_str
        ELSE Ok(f.format.whitespace_start \o yaml_str.v
                \o f.format.whitespace_end)

(***************************************************************************)
(* The adapters: a document is parsed by the adapter of its format, the    *)
(* caller may replace the value of the Formatted, and the Formatted is     *)
(* stringified with options of its own.                                    *)
(***************************************************************************)
MaxLead == 1         \* longest white space in front of a document
MaxTrail == 1        \* longest white space behind a document
MaxDocIndent == 2    \* largest indent unit (JSON) or indented column + 1

Formats == {"json", "jsonc", "json5", "toml", "yaml"}

\* the characters around a document: white space of the format, and U+00A0,
\* which \s matches and which only JSON5 takes for white space
OuterChars(f) ==
    IF f \in {"json", "json5", "toml"} THEN {SPACE, LF, NBSP} ELSE {SPACE, LF}

OuterTexts(f, n) == UNION {[1..k -> OuterChars(f)] : k \in 0..n}

TrailTexts(n) == UNION {[1..k -> {SPACE, LF}] : k \in 0..n}

\* the text of value v in format f, laid out in style st
DocBody(f, v, st) ==
    IF f = "yaml" THEN yaml_text(v, st - 1)
    ELSE IF f = "toml" /\ v.t = "map" THEN toml_text(v, st - 1)
    ELSE json_pretty(v, 0, st)

Docs(f) ==
    {lead \o DocBody(f, v, st) \o trail :
        lead \in OuterTexts(f, MaxLead),
        trail \in TrailTexts(MaxTrail),
        v \in Values,
        st \in 1..MaxDocIndent}

\* the options of the adapter calls: the default ones, and those with an
\* explicit indent or a flag switched off
AdapterOptions ==
    {o \in FormatOptions : /\ o.sample_size = DefaultSampleSize
                           /\ o.indent \in {None, Some(MaxIndent)}}

\* the options of the stringify calls
AdapterStringifyOptions ==
    {o \in AdapterOptions : o.preserve_whitespace}
        \cup {[FormatOptionsDefault EXCEPT !.indent = Some(0)]}

\* the values a caller puts in the place of the decoded one
MutatedValues == {VNull}

InitAdapter ==
    /\ pc = "start"
    /\ fmt \in Formats
    /\ text \in Docs(fmt)
    /\ opts \in AdapterOptions
    /\ info = NoInfo
    /\ indent = NoIndent
    /\ value = None
    /\ sopts = FormatOptionsDefault
    /\ out = None
    /\ extra = JsoncExtraOptionsDefault
    /\ NoThreads

\* a parse function returned r: an Err is handed to the caller and nothing
\* else exists; an Ok holds the Formatted
Parsed(r) ==
    /\ IF r.ok
       THEN /\ value' = Some(r.v.value)
            /\ info' = r.v.format
            /\ out' = out
            /\ pc' = "parsed"
       ELSE /\ out' = Some(r)
            /\ pc' = "failed"
            /\ UNCHANGED <<value, info>>
    /\ UNCHANGED <<text, opts, indent, fmt, sopts, threadVars, extra>>

ParseJson == pc = "start" /\ fmt = "json" /\ Parsed(parse_json(text, opts))

ParseJsonc ==
    /\ pc = "start"
    /\ fmt = "jsonc"
    /\ Parsed(parse_jsonc(text, opts, extra))

ParseJson5 == pc = "start" /\ fmt = "json5" /\ Parsed(parse_json5(text, opts))

ParseToml == pc = "start" /\ fmt = "toml" /\ Parsed(parse_toml(text, opts))

ParseYaml == pc = "start" /\ fmt = "yaml" /\ Parsed(parse_yaml(text, opts))

\* the caller replaces formatted.value
Mutate ==
    /\ pc = "parsed"
    /\ \E v \in MutatedValues : v # unwrap(value) /\ value' = Some(v)
    /\ pc' = "mutated"
    /\ UNCHANGED <<text, opts, info, indent, fmt, sopts, out,
                   threadVars, extra>>

TheFormatted == [value |-> unwrap(value), format |-> info]

StringifyJson ==
    /\ pc \in {"parsed", "mutated"}
    /\ fmt = "json"
    /\ \E o \in AdapterStringifyOptions :
          /\ sopts' = o
          /\ indent' = Some(compute_indent(info, o))
          /\ out' = Some(stringify_json(TheFormatted, o))
    /\ pc' = "stringified"
    /\ UNCHANGED <<text, opts, info, fmt, value, threadVars, extra>>

StringifyJsonc ==
    /\ pc \in {"parsed", "mutated"}
    /\ fmt = "jsonc"
    /\ \E o \in AdapterStringifyOptions :
          /\ sopts' = o
          /\ indent' = Some(compute_indent(info, o))
          /\ out' = Some(stringify_jsonc(TheFormatted, o))
    /\ pc' = "stringified"
    /\ UNCHANGED <<text, opts, info, fmt, value, threadVars, extra>>

StringifyJson5 ==
    /\ pc \in {"parsed", "mutated"}
    /\ fmt = "json5"
    /\ \E o \in AdapterStringifyOptions :
          /\ sopts' = o
          /\ indent' = Some(compute_indent(info, o))
          /\ out' = Some(stringify_json5(TheFormatted, o))
    /\ pc' = "stringified"
    /\ UNCHANGED <<text, opts, info, fmt, value, threadVars, extra>>

StringifyToml ==
    /\ pc \in {"parsed", "mutated"}
    /\ fmt = "toml"
    /\ \E o \in AdapterStringifyOptions :
          /\ sopts' = o
          /\ out' = Some(stringify_toml(TheFormatted, o))
    /\ pc' = "stringified"
    /\ UNCHANGED <<text, opts, info, indent, fmt, value, threadVars, extra>>

StringifyYaml ==
    /\ pc \in {"parsed", "mutated"}
    /\ fmt = "yaml"
    /\ \E o \in AdapterStringifyOptions :
          /\ sopts' = o
          /\ out' = Some(stringify_yaml(TheFormatted, o))
    /\ pc' = "stringified"
    /\ UNCHANGED <<text, opts, info, indent, fmt, value, threadVars, extra>>

NextAdapter ==
    \/ ParseJson
    \/ ParseJsonc
    \/ ParseJson5
    \/ ParseToml
    \/ ParseYaml
    \/ Mutate
    \/ StringifyJson
    \/ StringifyJsonc
    \/ StringifyJson5
    \/ StringifyToml
    \/ StringifyYaml

SpecAdapter == InitAdapter /\ [][NextAdapter]_vars

TypeOK ==
    /\ pc \in {"start", "detected", "resolved"}
    /\ Len(text) <= MaxLen
    /\ opts \in FormatOptions
    /\ Len(info.sample) <= 1
    /\ Len(indent) <= 1

(***************************************************************************)
(* Vocabulary of the properties                                            *)
(***************************************************************************)
\* str::trim_end(), and the text with its outer white space stripped
RECURSIVE trim_end(_)
trim_end(s) ==
    IF s # <<>> /\ is_whitespace(s[Len(s)])
    THEN trim_end(SubSeq(s, 1, Len(s) - 1))
    ELSE s

strip_outer_whitespace(s) == trim_end(trim_start(s))

AllWhitespace(s) == \A i \in 1..Len(s) : is_whitespace(s[i])

HasNonWhitespace(s) == \E i \in 1..Len(s) : ~is_whitespace(s[i])

\* detect_format has just returned for the text and the options of the state
Detected == pc = "detected" /\ indent = NoIndent /\ text # <<>>

DetectedAny == pc = "detected" /\ indent = NoIndent

\* first position of the line (delimited by LF) that holds position i
LineStart(s, i) ==
    CHOOSE k \in 1..i :
        /\ k = 1 \/ s[k - 1] = LF
        /\ \A j \in k..(i - 1) : s[j] # LF

\* position i holds the first non-white-space character of its line
FirstOfLine(s, i) ==
    /\ ~is_whitespace(s[i])
    /\ \A j \in LineStart(s, i)..(i - 1) : is_whitespace(s[j])

\* position i opens the content of an indented non-blank line
Qualifies(s, i) == FirstOfLine(s, i) /\ LineStart(s, i) < i

QualifyingPositions(s) == {i \in 1..Len(s) : Qualifies(s, i)}

\* least element of a non-empty set of integers
Least(S) == CHOOSE i \in S : \A j \in S : i <= j

\* number of characters in front of the content of the first qualifying line
FirstIndentChars(s) ==
    LET i == Least(QualifyingPositions(s)) IN i - LineStart(s, i)

(***************************************************************************)
(* C1 (as stated): for any text t, with preserve_whitespace = true,        *)
(* whitespace_start + (t with its outer white space stripped) +            *)
(* whitespace_end equals t, also for the empty text and for texts that     *)
(* consist only of white space.                                            *)
(***************************************************************************)
C1_Original ==
    (DetectedAny /\ opts.preserve_whitespace) =>
        info.whitespace_start \o strip_outer_whitespace(text)
            \o info.whitespace_end = text

(***************************************************************************)
(* C1 (amended): for any text t that is empty or holds at least one        *)
(* non-white-space character, with preserve_whitespace = true,             *)
(* whitespace_start + stripped(t) + whitespace_end equals t.               *)
(***************************************************************************)
C1_WhitespaceRoundTrip ==
    (DetectedAny /\ opts.preserve_whitespace
        /\ (text = <<>> \/ HasNonWhitespace(text))) =>
        info.whitespace_start \o strip_outer_whitespace(text)
            \o info.whitespace_end = text

C1_Witness ==
    /\ Detected
    /\ opts.preserve_whitespace
    /\ HasNonWhitespace(text)
    /\ info.whitespace_start # <<>>
    /\ info.whitespace_end # <<>>

(***************************************************************************)
(* C2: with preserve_indentation = false and no explicit indent,           *)
(* compute_indent returns the default width 2 for every descriptor, also   *)
(* for one that carries a sample with an indented line.                    *)
(***************************************************************************)
C2_NoDetectionWhenSwitchedOff ==
    (pc = "resolved" /\ is_none(opts.indent) /\ ~opts.preserve_indentation) =>
        indent = Some(DefaultIndent)

(***************************************************************************)
(* C3: with no explicit indent and a sample that has an indented non-blank *)
(* line, compute_indent returns the number of white-space characters, each *)
(* counted as one, in front of the content of the first such line.         *)
(***************************************************************************)
C3_FirstIndentedLineCount ==
    (pc = "resolved" /\ is_none(opts.indent) /\ opts.preserve_indentation
        /\ is_some(info.sample)
        /\ QualifyingPositions(unwrap(info.sample)) # {}) =>
        indent = Some(FirstIndentChars(unwrap(info.sample)))

(***************************************************************************)
(* C4: for every descriptor and every k >= 0, 0 included, compute_indent   *)
(* with options.indent = Some(k) returns exactly k.                        *)
(***************************************************************************)
C4_ExplicitIndentWins ==
    (pc = "resolved" /\ is_some(opts.indent)) => indent = opts.indent

C4_Witness ==
    /\ pc = "resolved"
    /\ opts.indent = Some(0)
    /\ indent = Some(0)
    /\ is_some(info.sample)
    /\ QualifyingPositions(unwrap(info.sample)) # {}

(***************************************************************************)
(* C5: with no explicit indent, compute_indent returns 2 whenever no line  *)
(* of the sample qualifies: the sample is absent, empty, all white space,  *)
(* or has zero indentation on every non-blank line.                        *)
(***************************************************************************)
C5_DefaultFallback ==
    (pc = "resolved" /\ is_none(opts.indent)
        /\ (is_none(info.sample)
            \/ QualifyingPositions(unwrap(info.sample)) = {})) =>
        indent = Some(DefaultIndent)

\* a sample with blank lines, white-space-only lines and two lines of content
C5_Witness ==
    /\ pc = "resolved"
    /\ is_none(opts.indent)
    /\ is_some(info.sample)
    /\ LET s == unwrap(info.sample)
       IN  /\ QualifyingPositions(s) = {}
           /\ Cardinality({i \in 1..Len(s) : FirstOfLine(s, i)}) >= 2
           /\ \E i \in 1..Len(s) : s[i] \in {SPACE, TAB, NBSP}
    /\ indent = Some(DefaultIndent)

(***************************************************************************)
(* C6: with preserve_whitespace = true, whitespace_start is the maximal    *)
(* white-space-only prefix of the text and whitespace_end the maximal      *)
(* white-space-only suffix: a prefix (suffix) of the text, all white       *)
(* space, not extensible by one more character, empty when the text does   *)
(* not start (end) with white space.                                       *)
(***************************************************************************)
C6_MaximalRuns ==
    (DetectedAny /\ opts.preserve_whitespace) =>
        LET a == info.whitespace_start
            b == info.whitespace_end
            n == Len(text)
        IN  /\ Len(a) <= n
            /\ a = SubSeq(text, 1, Len(a))
            /\ AllWhitespace(a)
            /\ Len(a) < n => ~is_whitespace(text[Len(a) + 1])
            /\ Len(b) <= n
            /\ b = SubSeq(text, n - Len(b) + 1, n)
            /\ AllWhitespace(b)
            /\ Len(b) < n => ~is_whitespace(text[n - Len(b)])

\* two characters of white space on each side of the content is out of
\* reach of the shortest texts: one side holds two characters
C6_Witness ==
    /\ Detected
    /\ opts.preserve_whitespace
    /\ HasNonWhitespace(text)
    /\ Len(info.whitespace_end) >= 2

(***************************************************************************)
(* C7: for a non-empty text that is all white space, with                  *)
(* preserve_whitespace = true, whitespace_start = whitespace_end = the     *)
(* whole text.                                                             *)
(***************************************************************************)
C7_WholeWhitespaceText ==
    (DetectedAny /\ opts.preserve_whitespace
        /\ text # <<>> /\ AllWhitespace(text)) =>
        /\ info.whitespace_start = text
        /\ info.whitespace_end = text

C7_Witness ==
    /\ Detected
    /\ opts.preserve_whitespace
    /\ Len(text) >= 2
    /\ AllWhitespace(text)
    /\ info.whitespace_start = text
    /\ info.whitespace_end = text

(***************************************************************************)
(* C8: for every text with at least one non-white-space character,         *)
(* length(whitespace_start) + length(whitespace_end) <= length(text) - 1;  *)
(* the two runs cover a common position only when the whole text is white  *)
(* space.                                                                  *)
(***************************************************************************)
C8_RunsDisjoint ==
    DetectedAny =>
        LET covered == Len(info.whitespace_start) + Len(info.whitespace_end)
        IN  /\ HasNonWhitespace(text) => covered <= Len(text) - 1
            /\ covered > Len(text) => AllWhitespace(text)

C8_Witness ==
    /\ Detected
    /\ HasNonWhitespace(text)
    /\ Len(info.whitespace_start) + Len(info.whitespace_end) = Len(text) - 1
    /\ info.whitespace_start # <<>>
    /\ info.whitespace_end # <<>>

(***************************************************************************)
(* C9: with preserve_whitespace = false, whitespace_start and              *)
(* whitespace_end are empty for every text and every value of the other    *)
(* options.                                                                *)
(***************************************************************************)
C9_Disablement ==
    (DetectedAny /\ ~opts.preserve_whitespace) =>
        /\ info.whitespace_start = <<>>
        /\ info.whitespace_end = <<>>

C9_Witness ==
    /\ Detected
    /\ ~opts.preserve_whitespace
    /\ is_whitespace(text[1])
    /\ is_whitespace(text[Len(text)])
    /\ info.whitespace_start = <<>>
    /\ info.whitespace_end = <<>>

(***************************************************************************)
(* C10: a sample is stored iff options.indent is None and                  *)
(* preserve_indentation is true; it is the first min(sample_size, number   *)
(* of characters of the text) characters of the text; so for a text no     *)
(* longer than the cap, any two sample_size values >= its length give the  *)
(* same descriptor and the same resolved indent.                           *)
(***************************************************************************)
C10_SampleCapture ==
    DetectedAny =>
        LET n == IF opts.sample_size < Len(text)
                 THEN opts.sample_size ELSE Len(text)
        IN  /\ is_some(info.sample) <=>
                   (is_none(opts.indent) /\ opts.preserve_indentation)
            /\ is_some(info.sample) => unwrap(info.sample) = SubSeq(text, 1, n)
            /\ \A m \in SampleSizes :
                   (opts.sample_size >= Len(text) /\ m >= Len(text)) =>
                       LET other ==
                               detect_format(text,
                                             [opts EXCEPT !.sample_size = m])
                       IN  /\ other = info
                           /\ compute_indent(other, FormatOptionsDefault)
                                  = compute_indent(info, FormatOptionsDefault)

\* a sample cut in the middle of a text that holds a two-byte character
C10_Witness ==
    /\ Detected
    /\ is_some(info.sample)
    /\ \E i \in 1..Len(text) : len_utf8(text[i]) > 1
    /\ Len(unwrap(info.sample)) = opts.sample_size
    /\ opts.sample_size < Len(text)
    /\ opts.sample_size > 0

(***************************************************************************)
(* Vocabulary of the adapter properties                                    *)
(***************************************************************************)
\* a stringify call has returned a text
Stringified(f) ==
    pc = "stringified" /\ fmt = f /\ is_some(out) /\ unwrap(out).ok

OutText == unwrap(out).v

\* the decoder and the encoder of a format, as functions of the text and of
\* the value
Decode(f, s) ==
    IF f = "json" THEN serde_json_from_str(s)
    ELSE IF f = "jsonc"
    THEN LET r == parse_to_serde_value(
                      s, JsoncParseOptions(JsoncExtraOptionsDefault))
         IN  IF ~r.ok THEN r
             ELSE Ok(IF is_some(r.v) THEN unwrap(r.v) ELSE VNull)
    ELSE IF f = "json5" THEN json5_from_str(s)
    ELSE IF f = "toml" THEN toml_from_str(s)
    ELSE serde_yaml_from_str(s)

Encode(f, v) ==
    IF f \in {"json", "jsonc"} THEN to_string_pretty(v)
    ELSE IF f = "json5" THEN json5_to_string(v)
    ELSE IF f = "toml" THEN toml_to_string(v)
    ELSE serde_yaml_to_string(v)

\* the stringify function of a format
StringifyOf(f, fm, o) ==
    IF f = "json" THEN stringify_json(fm, o)
    ELSE IF f = "jsonc" THEN stringify_jsonc(fm, o)
    ELSE IF f = "json5" THEN stringify_json5(fm, o)
    ELSE IF f = "toml" THEN stringify_toml(fm, o)
    ELSE stringify_yaml(fm, o)

\* the pieces of s between its LF characters
LfPositions(s) == {i \in 1..Len(s) : s[i] = LF}

Piece(s, k) ==
    LET before == {i \in LfPositions(s) :
                      Cardinality({j \in LfPositions(s) : j < i}) = k - 2}
        after == {i \in LfPositions(s) :
                     Cardinality({j \in LfPositions(s) : j < i}) = k - 1}
        from == IF k = 1 THEN 1 ELSE (CHOOSE i \in before : TRUE) + 1
        to == IF after = {} THEN Len(s) ELSE (CHOOSE i \in after : TRUE) - 1
    IN  SubSeq(s, from, to)

Pieces(s) == [k \in 1..(Cardinality(LfPositions(s)) + 1) |-> Piece(s, k)]

\* the line without the white space it starts with
WithoutLeading(l) ==
    LET content == {i \in 1..Len(l) : ~is_whitespace(l[i])}
    IN  IF content = {} THEN <<>> ELSE SubSeq(l, Least(content), Len(l))

\* the longest white-space-only prefix and suffix of a text
LeadingRun(s) ==
    LET content == {i \in 1..Len(s) : ~is_whitespace(s[i])}
    IN  IF content = {} THEN s ELSE SubSeq(s, 1, Least(content) - 1)

TrailingRun(s) ==
    LET content == {i \in 1..Len(s) : ~is_whitespace(s[i])}
    IN  IF content = {} THEN s
        ELSE SubSeq(s, (CHOOSE i \in content : \A j \in content : j <= i) + 1,
                    Len(s))

StartsWith(s, p) == Len(p) <= Len(s) /\ SubSeq(s, 1, Len(p)) = p

EndsWith(s, p) ==
    Len(p) <= Len(s) /\ SubSeq(s, Len(s) - Len(p) + 1, Len(s)) = p

(***************************************************************************)
(* C11: stringify_json rewrites the pretty output of the encoder line by   *)
(* line: a non-empty line becomes `indent` spaces and the line without its *)
(* leading white space, the same prefix at every depth; an empty line is   *)
(* kept; the lines are joined with LF; the result is whitespace_start +    *)
(* body + whitespace_end, with indent = compute_indent(descriptor, opts).  *)
(***************************************************************************)
C11_LineWiseReindent ==
    Stringified("json") =>
        LET n == compute_indent(info, sopts)
            enc == Pieces(to_string_pretty(unwrap(value)).v)
            a == Len(info.whitespace_start)
            b == Len(info.whitespace_end)
            body == SubSeq(OutText, a + 1, Len(OutText) - b)
            got == Pieces(body)
        IN  /\ indent = Some(n)
            /\ a + b <= Len(OutText)
            /\ StartsWith(OutText, info.whitespace_start)
            /\ EndsWith(OutText, info.whitespace_end)
            /\ Len(got) = Len(enc)
            /\ \A k \in 1..Len(enc) :
                   got[k] = IF enc[k] = <<>> THEN <<>>
                            ELSE spaces(n) \o WithoutLeading(enc[k])
            /\ reindent(<<SPACE, LETTER, LF, LF, TAB, TAB, LETTER>>, n)
                   = spaces(n) \o <<LETTER, LF, LF>> \o spaces(n)
                       \o <<LETTER>>

\* a map in a map, an indent other than the encoder's, white space around
C11_Witness ==
    /\ Stringified("json")
    /\ unwrap(value) = VMap(<<KEY_A>>, <<VMap(<<KEY_B>>, <<VNum>>)>>)
    /\ indent = Some(1)
    /\ info.whitespace_start # <<>>
    /\ info.whitespace_end # <<>>

(***************************************************************************)
(* C12: for the JSON, JSON5, TOML and YAML adapters and every text that    *)
(* decodes, parsing it and stringifying the result with default options    *)
(* gives a text that starts with the leading white-space run of the text   *)
(* and ends with its trailing run, reindented or not.                      *)
(***************************************************************************)
C12_OuterWhitespaceKept ==
    \A f \in {"json", "json5", "toml", "yaml"} :
        (Stringified(f) /\ opts = FormatOptionsDefault
            /\ sopts = FormatOptionsDefault) =>
            /\ StartsWith(OutText, LeadingRun(text))
            /\ EndsWith(OutText, TrailingRun(text))

C12_Witness ==
    /\ Stringified("yaml")
    /\ opts = FormatOptionsDefault
    /\ sopts = FormatOptionsDefault
    /\ LeadingRun(text) # <<>>
    /\ TrailingRun(text) # <<>>
    /\ Decode("yaml", text) = Ok(unwrap(value))

(***************************************************************************)
(* C13: for JSON5, TOML and YAML, stringify never rewrites the encoder     *)
(* output: the result is whitespace_start + encode(value) +                *)
(* whitespace_end, the same for every options.indent and every sample of   *)
(* the descriptor.                                                         *)
(***************************************************************************)
C13_EncoderOutputVerbatim ==
    \A f \in {"json5", "toml", "yaml"} :
        Stringified(f) =>
            /\ OutText = info.whitespace_start \o Encode(f, unwrap(value)).v
                             \o info.whitespace_end
            /\ \A i \in Indents :
               \A smp \in {None, Some(text),
                           Some(<<SPACE, SPACE, SPACE, LETTER>>)} :
                   StringifyOf(f,
                               [value |-> unwrap(value),
                                format |-> [info EXCEPT !.sample = smp]],
                               [sopts EXCEPT !.indent = i])
                       = unwrap(out)

\* a JSON5 text whose sample has an indented line, resolved to another width
C13_Witness ==
    /\ Stringified("json5")
    /\ is_some(info.sample)
    /\ QualifyingPositions(unwrap(info.sample)) # {}
    /\ indent = Some(1)
    /\ unwrap(value).t = "map"

(***************************************************************************)
(* C14: for the descriptor-based adapters and every valid text, decoding   *)
(* the text that stringify returns for the parsed text, with default       *)
(* options, gives the value that decoding the text itself gives.           *)
(***************************************************************************)
C14_SemanticRoundTrip ==
    \A f \in Formats :
        (Stringified(f) /\ opts = FormatOptionsDefault
            /\ sopts = FormatOptionsDefault
            /\ Decode(f, text) = Ok(unwrap(value))) =>
            /\ Decode(f, OutText).ok
            /\ Decode(f, OutText).v = unwrap(value)

\* the round trip of every adapter but the YAML one
C14_RoundTripButYaml ==
    \A f \in Formats \ {"yaml"} :
        (Stringified(f) /\ opts = FormatOptionsDefault
            /\ sopts = FormatOptionsDefault
            /\ Decode(f, text) = Ok(unwrap(value))) =>
            /\ Decode(f, OutText).ok
            /\ Decode(f, OutText).v = unwrap(value)

C16_WitnessParse ==
    /\ pc = "failed"
    /\ LeadingRun(text) # <<>>
    /\ ~unwrap(out).ok

(***************************************************************************)
(* C19: the configuration is stored neither in the descriptor nor in the   *)
(* wrapper.  An explicit indent given to parse is not remembered: the      *)
(* descriptor is the same for every explicit indent, its sample is absent, *)
(* and stringify_json with default options uses an indent of 2.            *)
(***************************************************************************)
C19_ConfigurationNotStored ==
    (pc \in {"parsed", "mutated", "stringified"} /\ is_some(opts.indent)) =>
        /\ is_none(info.sample)
        /\ pc = "parsed" => \A k \in 0..MaxIndent :
               Formatted(text, unwrap(value),
                         [opts EXCEPT !.indent = Some(k)]).format
                   = Formatted(text, unwrap(value), opts).format
        /\ (fmt \in {"json", "jsonc"} /\ pc = "parsed") => info
               = Formatted(text, unwrap(value), opts).format
        /\ (Stringified("json") /\ sopts = FormatOptionsDefault) =>
               /\ indent = Some(DefaultIndent)
               /\ unwrap(out) = stringify_json(
                      [value |-> unwrap(value),
                       format |-> [sample |-> None,
                                   whitespace_start |-> info.whitespace_start,
                                   whitespace_end |-> info.whitespace_end]],
                      FormatOptionsDefault)

\* parsed with an explicit indent of MaxIndent, stringified with the defaults
C19_Witness ==
    /\ Stringified("json")
    /\ opts.indent = Some(MaxIndent)
    /\ opts.preserve_indentation
    /\ sopts = FormatOptionsDefault
    /\ indent = Some(DefaultIndent)
    /\ unwrap(value).t = "map"

(***************************************************************************)
(* C20: stringify_jsonc returns exactly what stringify_json returns for    *)
(* the same value, descriptor and options, and leaves its argument         *)
(* unchanged.                                                              *)
(***************************************************************************)
C20_JsoncDelegates ==
    /\ [](pc = "stringified" /\ fmt = "jsonc" =>
              out = Some(stringify_json(TheFormatted, sopts)))
    /\ [][StringifyJsonc => UNCHANGED <<value, info>>]_vars

\* a JSONC wrapper whose sample resolves to an indent other than the default
C20_Witness ==
    /\ Stringified("jsonc")
    /\ is_some(info.sample)
    /\ indent = Some(1)
    /\ sopts = FormatOptionsDefault
    /\ info.whitespace_start # <<>>

(***************************************************************************)
(* C17: detect_format, compute_indent, the JSON reindentation and          *)
(* Formatted::new are total: they return for the empty text, an absent or  *)
(* empty sample, a sample_size of 0 and an explicit indent of 0, and the   *)
(* subtraction of the line lengths never underflows.                       *)
(***************************************************************************)
C17_Total ==
    /\ pc = "start" => ENABLED FormattedNew
    /\ pc = "detected" => ENABLED ComputeIndent
    /\ pc # "start" =>
           /\ Len(info.whitespace_start) <= Len(text)
           /\ Len(info.whitespace_end) <= Len(text)
           /\ is_some(info.sample) =>
                  /\ Len(unwrap(info.sample)) <= Len(text)
                  /\ \A k \in 1..Len(lines(unwrap(info.sample))) :
                         len(trim_start(lines(unwrap(info.sample))[k]))
                             <= len(lines(unwrap(info.sample))[k])
    /\ pc = "resolved" =>
           LET n == unwrap(indent)
               r == Pieces(reindent(text, n))
           IN  /\ n \in Nat
               /\ text = <<>> => reindent(text, n) = <<>>
               /\ \A k \in 1..Len(r) :
                      r[k] = <<>> \/ StartsWith(r[k], spaces(n))

\* the empty text, its empty sample, an explicit indent of 0
C17_Witness ==
    /\ pc = "resolved"
    /\ text = <<>>
    /\ info.sample = Some(<<>>)
    /\ opts.indent = Some(0)
    /\ indent = Some(0)

\* a text cut to an empty sample by a sample_size of 0, no explicit indent
C17_WitnessSampleSizeZero ==
    /\ pc = "resolved"
    /\ text # <<>>
    /\ info.sample = Some(<<>>)
    /\ is_none(opts.indent)
    /\ indent = Some(DefaultIndent)

(***************************************************************************)
(* ini_format.rs: the INI adapter.  A map is the set of its entries        *)
(* <<section, key, value>>, the value an Option; the decoder is the line   *)
(* parser behind ini::inistr!, with its default settings.                  *)
(***************************************************************************)
HASH == 35
SEMICOLON == 59
UPPER_A == 65
UPPER_Z == 90
KEY_S == 115

DEFAULT_SECTION == <<100, 101, 102, 97, 117, 108, 116>>

\* str::to_lowercase() on ASCII letters
to_lowercase(s) ==
    [i \in 1..Len(s) |->
        IF s[i] >= UPPER_A /\ s[i] <= UPPER_Z THEN s[i] + (KEY_A - UPPER_A)
        ELSE s[i]]

\* str::trim()
ini_trim(s) ==
    LET content == {i \in 1..Len(s) : ~is_whitespace(s[i])}
    IN  IF content = {} THEN <<>>
        ELSE SubSeq(s, CHOOSE i \in content : \A j \in content : i <= j,
                    CHOOSE i \in content : \A j \in content : j <= i)

ini_sections(m) == {e[1] : e \in m}

ini_keys(m, sec) == {e[2] : e \in {x \in m : x[1] = sec}}

ini_get(m, sec, key) == (CHOOSE e \in m : e[1] = sec /\ e[2] = key)[3]

\* HashMap::insert
ini_insert(m, sec, key, v) ==
    {e \in m : ~(e[1] = sec /\ e[2] = key)} \cup {<<sec, key, v>>}

\* the parser rejects the text: inistr! panics
IniPanic == {<<<<>>, <<>>, None>>}

\* the line loop of the parser, from line i on, in section sec
RECURSIVE ini_parse(_, _, _, _)
ini_parse(ls, i, sec, m) ==
    IF i > Len(ls) THEN m
    ELSE LET raw == ls[i]
             cpos == {j \in 1..Len(raw) : raw[j] \in {SEMICOLON, HASH}}
             line == IF cpos = {} THEN raw
                     ELSE SubSeq(raw, 1,
                                 (CHOOSE j \in cpos :
                                      \A k \in cpos : j <= k) - 1)
             trimmed == ini_trim(line)
             close == {j \in 1..Len(trimmed) : trimmed[j] = RBRACKET}
             dpos == {j \in 1..Len(trimmed) : trimmed[j] \in {EQUALS, COLON}}
         IN  IF trimmed = <<>> THEN ini_parse(ls, i + 1, sec, m)
             ELSE IF trimmed[1] = LBRACKET
             THEN IF close = {} THEN IniPanic
                  ELSE LET end == CHOOSE j \in close : \A k \in close : k <= j
                       IN  ini_parse(ls, i + 1,
                               to_lowercase(ini_trim(SubSeq(trimmed, 2,
                                                            end - 1))),
                               m)
             ELSE IF dpos = {}
             THEN ini_parse(ls, i + 1, sec,
                            ini_insert(m, sec, to_lowercase(trimmed), None))
             ELSE LET d == CHOOSE j \in dpos : \A k \in dpos : j <= k
                      key == to_lowercase(ini_trim(SubSeq(trimmed, 1, d - 1)))
                      v == ini_trim(SubSeq(trimmed, d + 1, Len(trimmed)))
                  IN  IF key = <<>> THEN IniPanic
                      ELSE ini_parse(ls, i + 1, sec,
                                     ini_insert(m, sec, key, Some(v)))

parse_ini(t) == ini_parse(lines(t), 1, DEFAULT_SECTION, {})

\* the inner loop: for (key, value) in kv, in the order ks
RECURSIVE ini_pairs(_, _, _, _)
ini_pairs(m, sec, ks, i) ==
    IF i > Len(ks) THEN <<>>
    ELSE LET v == ini_get(m, sec, ks[i])
         IN  (IF is_some(v)
              THEN ks[i] \o <<SPACE, EQUALS, SPACE>> \o unwrap(v)
              ELSE ks[i])
                 \o <<LF>> \o ini_pairs(m, sec, ks, i + 1)

\* the outer loop: for (section, kv) in map, in the order ord.sections
RECURSIVE ini_sections_text(_, _, _)
ini_sections_text(m, ord, i) ==
    IF i > Len(ord.sections) THEN <<>>
    ELSE LET sec == ord.sections[i]
         IN  (IF to_lowercase(sec) # DEFAULT_SECTION
              THEN <<LBRACKET>> \o sec \o <<RBRACKET, LF>>
              ELSE <<>>)
                 \o ini_pairs(m, sec, ord.keys[sec], 1)
                 \o ini_sections_text(m, ord, i + 1)

\* stringify_ini(&map), the maps iterated in the order ord
stringify_ini(m, ord) == ini_sections_text(m, ord, 1)

\* the orders in which a HashMap may hand out the elements of S
HashOrders(S) ==
    {f \in [1..Cardinality(S) -> S] :
        \A i, j \in 1..Cardinality(S) : f[i] = f[j] => i = j}

IterationOrders(m) ==
    [sections : HashOrders(ini_sections(m)),
     keys : {f \in [ini_sections(m) -> UNION {HashOrders(ini_keys(m, sec)) :
                                                 sec \in ini_sections(m)}] :
                \A sec \in ini_sections(m) :
                    f[sec] \in HashOrders(ini_keys(m, sec))}]

\* the maps of the documents: a key in the default section, two in [s]
IniEntries ==
    ({DEFAULT_SECTION} \X {<<KEY_A>>} \X {None, Some(<<DIGIT>>)})
        \cup ({<<KEY_S>>} \X {<<KEY_A>>, <<KEY_B>>} \X {None, Some(<<DIGIT>>)})

IniMaps ==
    {m \in SUBSET IniEntries :
        \A e1, e2 \in m : (e1[1] = e2[1] /\ e1[2] = e2[2]) => e1 = e2}

\* the documents: the keys of the default section before the first header
IniDocs ==
    UNION {{stringify_ini(m, ord) :
               ord \in {o \in IterationOrders(m) :
                           DEFAULT_SECTION \in ini_sections(m)
                               => o.sections[1] = DEFAULT_SECTION}} :
           m \in IniMaps}

InitIni ==
    /\ pc = "start"
    /\ fmt = "ini"
    /\ text \in IniDocs
    /\ opts = FormatOptionsDefault
    /\ sopts = FormatOptionsDefault
    /\ info = NoInfo
    /\ indent = NoIndent
    /\ value = None
    /\ out = None
    /\ extra = JsoncExtraOptionsDefault
    /\ NoThreads

\* parse_ini(text)
ParseIni ==
    /\ pc = "start"
    /\ fmt = "ini"
    /\ value' = Some(parse_ini(text))
    /\ pc' = "parsed"
    /\ UNCHANGED <<text, opts, info, indent, fmt, sopts, out,
                   threadVars, extra>>

\* stringify_ini(&map)
StringifyIni ==
    /\ pc = "parsed"
    /\ fmt = "ini"
    /\ \E ord \in IterationOrders(unwrap(value)) :
           out' = Some(Ok(stringify_ini(unwrap(value), ord)))
    /\ pc' = "stringified"
    /\ UNCHANGED <<text, opts, info, indent, fmt, sopts, value,
                   threadVars, extra>>

NextIni == ParseIni \/ StringifyIni

SpecIni == InitIni /\ [][NextIni]_vars

(***************************************************************************)
(* C15: INI round trip.  For every map m that parse_ini returns,           *)
(* parse_ini(stringify_ini(m)) = m, for every iteration order of the       *)
(* section map and of the key maps, a "default" section next to other      *)
(* sections and keys without a value included.                             *)
(***************************************************************************)
C15_IniRoundTrip ==
    (pc = "stringified" /\ fmt = "ini") =>
        parse_ini(OutText) = unwrap(value)

\* the round trip of the maps without a default section, or with it alone
C15_RoundTripOneKindOfSection ==
    (pc = "stringified" /\ fmt = "ini"
        /\ (DEFAULT_SECTION \notin ini_sections(unwrap(value))
               \/ ini_sections(unwrap(value)) = {DEFAULT_SECTION})) =>
        parse_ini(OutText) = unwrap(value)

(***************************************************************************)
(* format.rs, lines 44-100, called from several threads.  START_RE and     *)
(* END_RE are once_cell::sync::Lazy statics: a cell is "uninit" until the  *)
(* first caller claims it, "running" while that caller builds the regex,   *)
(* "ready" afterwards; a caller that finds it "running" waits.             *)
(***************************************************************************)
NumThreads == 2

Threads == 1..NumThreads

ThreadTexts == {<<SPACE, LETTER, LF>>, <<LF, SPACE, SPACE, SPACE, LETTER>>}

ThreadOptions ==
    {FormatOptionsDefault,
     [FormatOptionsDefault EXCEPT !.preserve_whitespace = FALSE]}

\* a check of the cell that takes a regex under construction for a built one
is_initialized_racy(c) == c # "uninit"

\* OnceCell::get: the cell holds its value
is_initialized(c) == c = "ready"

\* what a caller reads from a cell: the regex once the cell is ready,
\* unspecified memory before that
lazy_read(c, captures) == IF c = "ready" THEN {captures} ELSE {captures, None}

InitThreads ==
    /\ pc = "threads"
    /\ text = <<>>
    /\ opts = FormatOptionsDefault
    /\ info = NoInfo
    /\ indent = NoIndent
    /\ NoAdapter
    /\ lazy = [START_RE |-> "uninit", END_RE |-> "uninit"]
    /\ th \in [Threads -> [pc : {"call"},
                           text : ThreadTexts,
                           opts : ThreadOptions,
                           sample : {None},
                           whitespace_start : {<<>>},
                           whitespace_end : {<<>>},
                           info : {NoInfo},
                           indent : {NoIndent}]]

ThreadFrame == UNCHANGED <<pc, text, opts, info, indent, adapterVars>>

\* lines 45-49 and the test of line 54
TakeSample(t) ==
    /\ th[t].pc = "call"
    /\ th' = [th EXCEPT
                 ![t].sample =
                     IF is_none(th[t].opts.indent)
                            /\ th[t].opts.preserve_indentation
                     THEN Some(chars_take(th[t].text, th[t].opts.sample_size))
                     ELSE None,
                 ![t].pc = IF th[t].opts.preserve_whitespace
                           THEN "start_re" ELSE "build"]
    /\ UNCHANGED lazy
    /\ ThreadFrame

\* the first caller of START_RE claims the cell
ClaimStartRe(t) ==
    /\ th[t].pc = "start_re"
    /\ lazy.START_RE = "uninit"
    /\ lazy' = [lazy EXCEPT !.START_RE = "running"]
    /\ th' = [th EXCEPT ![t].pc = "start_re_new"]
    /\ ThreadFrame

\* Regex::new(r"^(\s+)").unwrap() has returned: the cell is ready
BuildStartRe(t) ==
    /\ th[t].pc = "start_re_new"
    /\ lazy' = [lazy EXCEPT !.START_RE = "ready"]
    /\ th' = [th EXCEPT ![t].pc = "start_re"]
    /\ ThreadFrame

\* lines 55-59: START_RE.captures(text)
MatchStartRe(t) ==
    /\ th[t].pc = "start_re"
    /\ is_initialized(lazy.START_RE)
    /\ \E c \in lazy_read(lazy.START_RE, START_RE_captures(th[t].text)) :
           th' = [th EXCEPT ![t].whitespace_start = unwrap_or_default(c),
                            ![t].pc = "end_re"]
    /\ UNCHANGED lazy
    /\ ThreadFrame

\* the first caller of END_RE claims the cell
ClaimEndRe(t) ==
    /\ th[t].pc = "end_re"
    /\ lazy.END_RE = "uninit"
    /\ lazy' = [lazy EXCEPT !.END_RE = "running"]
    /\ th' = [th EXCEPT ![t].pc = "end_re_new"]
    /\ ThreadFrame

\* Regex::new(r"(\s+)$").unwrap() has returned: the cell is ready
BuildEndRe(t) ==
    /\ th[t].pc = "end_re_new"
    /\ lazy' = [lazy EXCEPT !.END_RE = "ready"]
    /\ th' = [th EXCEPT ![t].pc = "end_re"]
    /\ ThreadFrame

\* lines 60-64: END_RE.captures(text)
MatchEndRe(t) ==
    /\ th[t].pc = "end_re"
    /\ is_initialized(lazy.END_RE)
    /\ \E c \in lazy_read(lazy.END_RE, END_RE_captures(th[t].text)) :
           th' = [th EXCEPT ![t].whitespace_end = unwrap_or_default(c),
                            ![t].pc = "build"]
    /\ UNCHANGED lazy
    /\ ThreadFrame

\* lines 71-75: the descriptor is returned
ReturnInfo(t) ==
    /\ th[t].pc = "build"
    /\ th' = [th EXCEPT
                 ![t].info = [sample |-> th[t].sample,
                              whitespace_start |-> th[t].whitespace_start,
                              whitespace_end |-> th[t].whitespace_end],
                 ![t].pc = "detected"]
    /\ UNCHANGED lazy
    /\ ThreadFrame

\* compute_indent(&info, &opts) on the descriptor of the thread
ThreadComputeIndent(t) ==
    /\ th[t].pc = "detected"
    /\ th' = [th EXCEPT
                 ![t].indent = Some(compute_indent(th[t].info, th[t].opts)),
                 ![t].pc = "done"]
    /\ UNCHANGED lazy
    /\ ThreadFrame

NextThreads ==
    \E t \in Threads :
        \/ TakeSample(t)
        \/ ClaimStartRe(t)
        \/ BuildStartRe(t)
        \/ MatchStartRe(t)
        \/ ClaimEndRe(t)
        \/ BuildEndRe(t)
        \/ MatchEndRe(t)
        \/ ReturnInfo(t)
        \/ ThreadComputeIndent(t)

SpecThreads == InitThreads /\ [][NextThreads]_vars

(***************************************************************************)
(* C18: detection and resolution keep no state between calls.  Under every *)
(* interleaving of concurrent detect_format and compute_indent calls on    *)
(* independent inputs, each call returns what it returns when it runs      *)
(* alone, also while the first callers are initialising START_RE and       *)
(* END_RE.                                                                 *)
(***************************************************************************)
C18_ConcurrentCallsAsAlone ==
    pc = "threads" =>
        \A t \in Threads :
            /\ th[t].pc \in {"detected", "done"} =>
                   th[t].info = detect_format(th[t].text, th[t].opts)
            /\ th[t].pc = "done" =>
                   th[t].indent
                       = Some(compute_indent(
                                  detect_format(th[t].text, th[t].opts),
                                  th[t].opts))

\* a thread has its white space while another one is still building END_RE,
\* on another text
C18_Witness ==
    /\ pc = "threads"
    /\ \E t, u \in Threads :
           /\ th[t].pc = "end_re"
           /\ th[t].whitespace_start # <<>>
           /\ th[u].pc = "end_re_new"
           /\ th[u].text # th[t].text
           /\ lazy.START_RE = "ready"
           /\ lazy.END_RE = "running"

\* every thread is done, the threads on different inputs
C18_WitnessDone ==
    /\ pc = "threads"
    /\ \A t \in Threads : th[t].pc = "done"
    /\ \E t, u \in Threads :
           /\ th[t].text # th[u].text
           /\ th[t].info.whitespace_end # <<>>
           /\ th[u].info.whitespace_end = <<>>
           /\ th[u].opts.preserve_whitespace

(***************************************************************************)
(* jsonc.rs, lines 15-32, on texts with comments and trailing commas and   *)
(* with every combination of the two extra options                         *)
(***************************************************************************)
JSONC_OBJECT == <<LBRACE, QUOTE, KEY_A, QUOTE, COLON, DIGIT, RBRACE>>

JSONC_TRAILING_COMMA ==
    <<LBRACE, QUOTE, KEY_A, QUOTE, COLON, DIGIT, COMMA, LF, RBRACE>>

JSONC_LINE_COMMENT == <<SLASH, SLASH, LETTER, LF>>

JSONC_BLOCK_COMMENT == <<SLASH, STAR, LETTER, STAR, SLASH>>

\* the documents: a value or none, a comment or none in front of it, a
\* comment or none inside the object, white space around
JsoncDocs ==
    {lead \o comment \o body \o trail :
        lead \in OuterTexts("jsonc", MaxLead),
        comment \in {<<>>, JSONC_LINE_COMMENT, JSONC_BLOCK_COMMENT},
        body \in {<<>>, <<DIGIT>>, JSONC_OBJECT, JSONC_TRAILING_COMMA,
                  <<LBRACE>> \o JSONC_LINE_COMMENT \o Tail(JSONC_OBJECT)},
        trail \in TrailTexts(MaxTrail)}

InitJsonc ==
    /\ pc = "start"
    /\ fmt = "jsonc"
    /\ text \in JsoncDocs
    /\ opts = FormatOptionsDefault
    /\ extra \in JsoncExtraOptions
    /\ info = NoInfo
    /\ indent = NoIndent
    /\ value = None
    /\ sopts = FormatOptionsDefault
    /\ out = None
    /\ NoThreads

NextJsonc == ParseJsonc

SpecJsonc == InitJsonc /\ [][NextJsonc]_vars

(***************************************************************************)
(* C21: the leniency flags of parse_jsonc.  With the default extra options *)
(* comments are accepted and trailing commas rejected; with                *)
(* disallow_comments a text with a comment is an Err; a text with a        *)
(* trailing comma is an Err unless allow_trailing_comma is set, and then   *)
(* it parses.  An Err comes without a Formatted; a document without a      *)
(* value parses to a Formatted with the value Null.                        *)
(***************************************************************************)
HasComment(s) == \E i \in 1..Len(s) : s[i] = SLASH

HasTrailingComma(s) == \E i \in 1..Len(s) : s[i] = COMMA

HasValue(s) == \E i \in 1..Len(s) : s[i] \in {DIGIT, LBRACE}

C21_JsoncFlags ==
    (fmt = "jsonc" /\ pc \in {"parsed", "failed"}) =>
        /\ pc = "failed" <=>
               \/ extra.disallow_comments /\ HasComment(text)
               \/ ~extra.allow_trailing_comma /\ HasTrailingComma(text)
        /\ pc = "failed" =>
               /\ value = None
               /\ info = NoInfo
               /\ ~unwrap(out).ok
        /\ pc = "parsed" =>
               /\ info = detect_format(text, opts)
               /\ value = Some(IF ~HasValue(text) THEN VNull
                               ELSE IF \E i \in 1..Len(text) : text[i] = LBRACE
                               THEN VMap(<<KEY_A>>, <<VNum>>)
                               ELSE VNum)

\* a comment and a trailing comma, both allowed by the caller
C21_Witness ==
    /\ fmt = "jsonc"
    /\ pc = "parsed"
    /\ ~extra.disallow_comments
    /\ extra.allow_trailing_comma
    /\ HasComment(text)
    /\ HasTrailingComma(text)
    /\ unwrap(value).t = "map"

\* a comment where the caller disallows them
C21_WitnessComment ==
    /\ fmt = "jsonc"
    /\ pc = "failed"
    /\ extra.disallow_comments
    /\ HasComment(text)
    /\ ~HasTrailingComma(text)

\* a comment and nothing else parses to Null
C21_WitnessNoValue ==
    /\ fmt = "jsonc"
    /\ pc = "parsed"
    /\ HasComment(text)
    /\ ~HasValue(text)
    /\ value = Some(VNull)

(***************************************************************************)
(* C22: parse_toml and parse_yaml capture the outer white space only.  For *)
(* every text and every options of the caller, preserve_indentation = true *)
(* with indent = None included, the Formatted has sample = None, and       *)
(* whitespace_start / whitespace_end follow the caller's                   *)
(* preserve_whitespace as in detect_format.                                *)
(***************************************************************************)
C22_OuterWhitespaceOnly ==
    (fmt \in {"toml", "yaml"} /\ pc \in {"parsed", "mutated", "stringified"}) =>
        /\ info.sample = None
        /\ info.whitespace_start = detect_format(text, opts).whitespace_start
        /\ info.whitespace_end = detect_format(text, opts).whitespace_end
        /\ opts.preserve_whitespace =>
               /\ info.whitespace_start = LeadingRun(text)
               /\ info.whitespace_end = TrailingRun(text)
        /\ ~opts.preserve_whitespace =>
               /\ info.whitespace_start = <<>>
               /\ info.whitespace_end = <<>>

\* the caller asks for the indentation to be kept and gives no indent
C22_Witness ==
    /\ fmt = "toml"
    /\ pc = "parsed"
    /\ opts.preserve_indentation
    /\ is_none(opts.indent)
    /\ opts.preserve_whitespace
    /\ info.whitespace_start # <<>>
    /\ info.whitespace_end # <<>>
    /\ unwrap(value).t = "map"

(***************************************************************************)
(* C23: re-encoding is stable under repetition.  For every valid JSON text *)
(* t and default options, u = stringify_json(parse_json(t)) is a fixed     *)
(* point: stringify_json(parse_json(u)) = u, so that repeated cycles do    *)
(* not keep growing the leading white space or the indent.                 *)
(***************************************************************************)
C23_FixedPoint ==
    (Stringified("json") /\ opts = FormatOptionsDefault
        /\ sopts = FormatOptionsDefault
        /\ Decode("json", text).v = unwrap(value)) =>
        LET u == OutText
            again == parse_json(u, FormatOptionsDefault)
        IN  /\ again.ok
            /\ stringify_json(again.v, FormatOptionsDefault).ok
            /\ stringify_json(again.v, FormatOptionsDefault).v = u

MaxInput == 4        \* longest input of regex_exec_all

RegexInputs == UNION {[1..n -> {LETTER, KEY_B, SPACE}] : n \in 0..MaxInput}

Regexes ==
    {[class |-> {LETTER}, name |-> None],
     [class |-> {LETTER, KEY_B}, name |-> Some("w")]}

\* the length of the longest run of characters of the class from position i
RECURSIVE class_run(_, _, _)
class_run(re, s, i) ==
    IF i > Len(s) \/ s[i] \notin re.class THEN 0
    ELSE 1 + class_run(re, s, i + 1)

\* Regex::find_iter: the leftmost match from position i on, then the
\* matches behind it; first and last are positions of characters
RECURSIVE find_iter(_, _, _)
find_iter(re, s, i) ==
    IF i > Len(s) THEN <<>>
    ELSE LET n == class_run(re, s, i)
         IN  IF n >= 1
             THEN <<[first |-> i, last |-> i + n - 1]>>
                      \o find_iter(re, s, i + n)
             ELSE find_iter(re, s, i + 1)

\* Regex::captures: the groups of the leftmost match of the whole input
captures(re, s) ==
    LET ms == find_iter(re, s, 1)
    IN  IF ms = <<>> THEN None
        ELSE LET m == SubSeq(s, ms[1].first, ms[1].last)
             IN  Some([groups |-> <<Some(m), Some(m)>>,
                       names |-> IF is_some(re.name)
                                 THEN {<<unwrap(re.name), m>>} ELSE {}])

\* the body of the loop for the match mat: lines 6-25
ExecResult(re, input, mat) ==
    LET caps == unwrap(captures(re, input))
    IN  [match_str |-> SubSeq(input, mat.first, mat.last),
         groups |-> caps.groups,
         named_groups |-> caps.names,
         start |-> len(SubSeq(input, 1, mat.first - 1)),
         end |-> len(SubSeq(input, 1, mat.last)),
         input |-> input]

regex_exec_all(re, input) ==
    LET ms == find_iter(re, input, 1)
    IN  [k \in 1..Len(ms) |-> ExecResult(re, input, ms[k])]

InitExec ==
    /\ pc = "start"
    /\ fmt = "regex"
    /\ text \in RegexInputs
    /\ value \in {Some(re) : re \in Regexes}
    /\ opts = FormatOptionsDefault
    /\ sopts = FormatOptionsDefault
    /\ info = NoInfo
    /\ indent = NoIndent
    /\ out = None
    /\ extra = JsoncExtraOptionsDefault
    /\ NoThreads

\* regex_exec_all(&re, input)
RegexExecAll ==
    /\ pc = "start"
    /\ fmt = "regex"
    /\ out' = Some(regex_exec_all(unwrap(value), text))
    /\ pc' = "done"
    /\ UNCHANGED <<text, opts, info, indent, fmt, value, sopts, threadVars,
                   extra>>

NextExec == RegexExecAll

SpecExec == InitExec /\ [][NextExec]_vars

(***************************************************************************)
(* C25: regex_exec_all returns one ExecResult per non-overlapping match of *)
(* the regex in the input, in input order, and every result carries the    *)
(* capture groups of that same match: groups[0] = match_str, and the       *)
(* groups and named groups are those captured at [start, end), for the     *)
(* second and later matches too.                                           *)
(***************************************************************************)
\* the positions at which a maximal run of characters of the class starts
RunStarts(re, s) ==
    {i \in 1..Len(s) :
        s[i] \in re.class /\ (i = 1 \/ s[i - 1] \notin re.class)}

C25_MatchesInOrder ==
    (fmt = "regex" /\ pc = "done") =>
        LET re == unwrap(value)
            rs == unwrap(out)
        IN  /\ Len(rs) = Cardinality(RunStarts(re, text))
            /\ \A k \in 1..Len(rs) :
                   /\ rs[k].start + 1 \in RunStarts(re, text)
                   /\ rs[k].match_str
                          = SubSeq(text, rs[k].start + 1, rs[k].end)
                   /\ rs[k].end = Len(text)
                          \/ text[rs[k].end + 1] \notin re.class
                   /\ k > 1 => rs[k - 1].end < rs[k].start

C25_GroupsOfTheSameMatch ==
    (fmt = "regex" /\ pc = "done") =>
        /\ C25_MatchesInOrder
        /\ \A k \in 1..Len(unwrap(out)) :
               LET r == unwrap(out)[k]
               IN  /\ r.groups[1] = Some(r.match_str)
                   /\ r.groups[2] = Some(r.match_str)
                   /\ \A p \in r.named_groups : p[2] = r.match_str
====
